---- MODULE Spec2Model ----
(***************************************************************************)
(* Model of the library data layer: the Books, Users and Borrow tables of  *)
(* db.py and the write operations of books.py, users.py and borrow.py.     *)
(*                                                                         *)
(* Storage semantics (sqlite3 as opened by db.get_connection):             *)
(*   - a SELECT runs in autocommit mode and reads the committed tables;    *)
(*   - the first INSERT/UPDATE/DELETE of a connection opens a transaction  *)
(*     and takes the database write lock, which it keeps until commit,     *)
(*     rollback or close; a second writer waits for the lock;              *)
(*   - uncommitted writes live in the writer's transaction (tx) and reach  *)
(*     the committed tables only at commit;                                *)
(*   - PRAGMA foreign_keys = ON: an INSERT into Borrow whose book or user  *)
(*     is absent, and a DELETE of a referenced Books/Users row, raise      *)
(*     IntegrityError;                                                     *)
(*   - AUTOINCREMENT: ids come from a per-table counter, never reused;     *)
(*   - a connection that is never closed (delete_book and delete_user     *)
(*     have no try/finally, so an exception in their DELETE skips the      *)
(*     close) keeps its open transaction and the write lock until the     *)
(*     interpreter collects it.                                            *)
(* A writer that finds the lock taken waits for it; the busy timeout of    *)
(* the driver (OperationalError: database is locked) is a storage failure  *)
(* and appears only in SpecFault.                                          *)
(*                                                                         *)
(* Specifications:                                                         *)
(*   Spec         the sequential program, every write operation;           *)
(*   SpecRace     three callers, one borrow_book or return_book each;      *)
(*   SpecLive     SpecRace under fair scheduling of the callers;           *)
(*   SpecFault    two callers, any statement of a ledger call may fail;    *)
(*   SpecDelete   three callers, ledger calls and registry deletes;        *)
(*   SpecLedger   three callers, every write operation but                 *)
(*                update_book_availability;                                *)
(*   SpecReports  one reporting or query call on the tables left behind.   *)
(* Dates given to borrow_book and return_book are dates (never None).      *)
(***************************************************************************)
EXTENDS Integers, FiniteSets, Sequences, TLC

\* ---------------------------------------------------------------- bounds
MaxBooks == 2
MaxUsers == 2
MaxBorrows == 2
MaxDate == 2
MaxTitles == 2
MaxAuthors == 2

\* return_date NULL (db.py: return_date TEXT, nullable)
NULL == 0

BookIds == 1..MaxBooks
UserIds == 1..MaxUsers
BorrowIds == 1..MaxBorrows
Dates == 1..MaxDate
Titles == 1..MaxTitles
Authors == 1..MaxAuthors
\* values a caller may pass as `available` (2 stands for any value not in (0, 1))
AvailableArgs == {0, 1, 2}

Callers == {"c1", "c2", "c3"}
NoCaller == "nobody"
\* a connection left open by a call that raised before its conn.close()
LeakedConn == "leaked"
\* the single caller of the sequential program (main.py)
MainCaller == "c1"

VARIABLES
    Books,      \* committed Books table: book_id -> available
    seqBooks,   \* AUTOINCREMENT counter of Books
    Users,      \* committed Users table: set of user_id
    seqUsers,   \* AUTOINCREMENT counter of Users
    Borrow,     \* committed Borrow table: set of rows
    seqBorrow,  \* AUTOINCREMENT counter of Borrow
    lock,       \* the caller holding the database write lock, or NoCaller
    tx,         \* the lock holder's uncommitted Books and Borrow tables
    pc,         \* per caller: "idle" or the statement it executes next
    call,       \* per caller: the current (or last) call and its locals
    ret,        \* per caller: the result of the last completed call
    pre         \* per caller: the committed tables when its call began (history)

vars == <<Books, seqBooks, Users, seqUsers, Borrow, seqBorrow, lock, tx, pc, call, ret, pre>>
db == <<Books, seqBooks, Users, seqUsers, Borrow, seqBorrow>>

\* ------------------------------------------------------------ rows, calls
BorrowRow(id, b, u, d, rd) ==
    [borrow_id |-> id, book_id |-> b, user_id |-> u, borrow_date |-> d, return_date |-> rd]

Call(op, u, b, r, d, rd, a) ==
    [op |-> op, user_id |-> u, book_id |-> b, borrow_id |-> r,
     borrow_date |-> d, return_date |-> rd, available |-> a]

NoCall == Call("none", 0, 0, 0, 0, 0, 0)
NoTx == [Books |-> <<>>, Borrow |-> {}]
Tables(books, users, borrow) == [Books |-> books, Users |-> users, Borrow |-> borrow]

Result(kind, val) == [kind |-> kind, val |-> val]
NoRet == Result("none", 0)
RetNone == Result("None", 0)
RetTrue == Result("True", 0)
RetFalse == Result("False", 0)
RetId(id) == Result("id", id)
Raised(e) == Result(e, 0)
\* the exception e raised by the stmt-th statement of the call
RaisedAt(e, stmt) == Result(e, stmt)

\* ------------------------------------------------------------ statements
\* faulty variant: no user check, the foreign key left to refuse the INSERT
UserExists_unchecked(users, u) == TRUE

\* SELECT 1 FROM Users WHERE user_id = ?
UserExists(users, u) == u \in users

\* faulty variant: the UPDATE without its "AND available = 1"
MatchAvailable_unguarded(books, b) == IF b \in DOMAIN books THEN {b} ELSE {}

\* the rows UPDATE Books SET available = 0 WHERE book_id = ? AND available = 1 matches
MatchAvailable(books, b) == IF b \in DOMAIN books /\ books[b] = 1 THEN {b} ELSE {}

\* faulty variant: the WHERE clause without its "AND return_date IS NULL"
MatchOpen_unguarded(borrow, r) == {x \in borrow : x.borrow_id = r}

\* the rows ... WHERE borrow_id = ? AND return_date IS NULL matches
MatchOpen(borrow, r) == {x \in borrow : x.borrow_id = r /\ x.return_date = NULL}

\* UPDATE Borrow SET return_date = ? WHERE borrow_id = ? AND return_date IS NULL
CloseBorrow(borrow, r, rd) ==
    {IF x \in MatchOpen(borrow, r) THEN [x EXCEPT !.return_date = rd] ELSE x : x \in borrow}

\* faulty variant: the UPDATE without its WHERE book_id = ?
SetAvailable_everywhere(books, b, a) == [x \in DOMAIN books |-> a]

\* UPDATE Books SET available = ? WHERE book_id = ?
SetAvailable(books, b, a) == IF b \in DOMAIN books THEN [books EXCEPT ![b] = a] ELSE books

\* faulty variant: the count restricted to active borrows, as delete_user has it
CountBookBorrows_active(borrow, b) ==
    Cardinality({x \in borrow : x.book_id = b /\ x.return_date = NULL})

\* SELECT COUNT(*) FROM Borrow WHERE book_id = ?
CountBookBorrows(borrow, b) == Cardinality({x \in borrow : x.book_id = b})

\* SELECT COUNT(*) FROM Borrow WHERE user_id = ? AND return_date IS NULL
CountActiveBorrows(borrow, u) ==
    Cardinality({x \in borrow : x.user_id = u /\ x.return_date = NULL})

\* FOREIGN KEY(book_id) REFERENCES Books, FOREIGN KEY(user_id) REFERENCES Users
ForeignKeysHold(books, users, row) == row.book_id \in DOMAIN books /\ row.user_id \in users
\* faulty variant: the connection opened without PRAGMA foreign_keys = ON
BookReferenced_unenforced(borrow, b) == FALSE
BookReferenced(borrow, b) == \E x \in borrow : x.book_id = b
\* faulty variant: the connection opened without PRAGMA foreign_keys = ON
UserReferenced_unenforced(borrow, u) == FALSE
UserReferenced(borrow, u) == \E x \in borrow : x.user_id = u

InsertBook(books, id) == [x \in DOMAIN books \cup {id} |-> IF x = id THEN 1 ELSE books[x]]
DeleteBookRow(books, b) == [x \in DOMAIN books \ {b} |-> books[x]]

\* ------------------------------------------------------------------ init
\* the tables as init_db creates them, no call made yet
Init ==
    /\ Books = <<>>
    /\ seqBooks = 0
    /\ Users = {}
    /\ seqUsers = 0
    /\ Borrow = {}
    /\ seqBorrow = 0
    /\ lock = NoCaller
    /\ tx = NoTx
    /\ pc = [c \in Callers |-> "idle"]
    /\ call = [c \in Callers |-> NoCall]
    /\ ret = [c \in Callers |-> NoRet]
    /\ pre = [c \in Callers |-> Tables(Books, Users, Borrow)]

\* caller c begins the call theCall
Begin(c, theCall) ==
    /\ call' = [call EXCEPT ![c] = theCall]
    /\ pre' = [pre EXCEPT ![c] = Tables(Books, Users, Borrow)]

\* a call returns (or raises) r
Finish(c, r) ==
    /\ pc' = [pc EXCEPT ![c] = "idle"]
    /\ ret' = [ret EXCEPT ![c] = r]

\* a call goes on to its next statement
Goto(c, label) ==
    /\ pc' = [pc EXCEPT ![c] = label]
    /\ ret' = [ret EXCEPT ![c] = NoRet]

\* borrow_book calls that have passed the user check and may still insert a row
PendingInserts == Cardinality({c \in Callers : pc[c] \in {"borrow_update", "borrow_insert"}})

\* ----------------------------------------------------------------- books
\* faulty variant: the INSERT with VALUES (?, ?, ?, 0)
add_book_unavailable(c) ==
    /\ pc[c] = "idle"
    /\ lock = NoCaller
    /\ seqBooks < MaxBooks
    /\ Books' = [InsertBook(Books, seqBooks + 1) EXCEPT ![seqBooks + 1] = 0]
    /\ seqBooks' = seqBooks + 1
    /\ Begin(c, Call("add_book", 0, 0, 0, 0, 0, 0))
    /\ Finish(c, RetId(seqBooks + 1))
    /\ UNCHANGED <<Users, seqUsers, Borrow, seqBorrow, lock, tx>>

\* INSERT INTO Books (title, author, year, available) VALUES (?, ?, ?, 1)
add_book(c) ==
    /\ pc[c] = "idle"
    /\ lock = NoCaller
    /\ seqBooks < MaxBooks
    /\ Books' = InsertBook(Books, seqBooks + 1)
    /\ seqBooks' = seqBooks + 1
    /\ Begin(c, Call("add_book", 0, 0, 0, 0, 0, 0))
    /\ Finish(c, RetId(seqBooks + 1))
    /\ UNCHANGED <<Users, seqUsers, Borrow, seqBorrow, lock, tx>>

\* faulty variant: the flag of a copy that is out on an open record is kept
update_book_availability_guarded(c) ==
    /\ pc[c] = "idle"
    /\ \E b \in BookIds, a \in AvailableArgs :
        /\ Begin(c, Call("update_book_availability", 0, b, 0, 0, 0, a))
        /\ IF a \notin {0, 1}
           THEN /\ Finish(c, Raised("ValueError"))
                /\ UNCHANGED Books
           ELSE /\ lock = NoCaller
                /\ IF CountBookBorrows_active(Borrow, b) > 0
                   THEN /\ Finish(c, RetFalse)
                        /\ UNCHANGED Books
                   ELSE /\ Books' = SetAvailable(Books, b, a)
                        /\ Finish(c, IF b \in DOMAIN Books THEN RetTrue ELSE RetFalse)
    /\ UNCHANGED <<seqBooks, Users, seqUsers, Borrow, seqBorrow, lock, tx>>

\* if available not in (0, 1): raise ValueError; UPDATE Books SET available
\* = ? WHERE book_id = ?, commit; True when a row was updated
update_book_availability(c) ==
    /\ pc[c] = "idle"
    /\ \E b \in BookIds, a \in AvailableArgs :
        /\ Begin(c, Call("update_book_availability", 0, b, 0, 0, 0, a))
        /\ IF a \notin {0, 1}
           THEN /\ Finish(c, Raised("ValueError"))
                /\ UNCHANGED Books
           ELSE /\ lock = NoCaller
                /\ Books' = SetAvailable(Books, b, a)
                /\ Finish(c, IF b \in DOMAIN Books THEN RetTrue ELSE RetFalse)
    /\ UNCHANGED <<seqBooks, Users, seqUsers, Borrow, seqBorrow, lock, tx>>

\* delete_book: the call and its SELECT COUNT(*)
delete_book(c) ==
    /\ pc[c] = "idle"
    /\ \E b \in BookIds :
        /\ Begin(c, Call("delete_book", 0, b, 0, 0, 0, 0))
        /\ IF CountBookBorrows(Borrow, b) > 0
           THEN Finish(c, RetFalse)
           ELSE Goto(c, "delete_book_delete")
    /\ UNCHANGED <<db, lock, tx>>

\* delete_book: DELETE FROM Books, commit
delete_book_delete(c) ==
    /\ pc[c] = "delete_book_delete"
    /\ lock = NoCaller
    /\ LET b == call[c].book_id IN
        IF BookReferenced(Borrow, b)
        THEN /\ Finish(c, Raised("IntegrityError"))
             /\ lock' = LeakedConn
             /\ UNCHANGED Books
        ELSE /\ Books' = DeleteBookRow(Books, b)
             /\ Finish(c, IF b \in DOMAIN Books THEN RetTrue ELSE RetFalse)
             /\ UNCHANGED lock
    /\ UNCHANGED <<seqBooks, Users, seqUsers, Borrow, seqBorrow, tx, call, pre>>

\* ----------------------------------------------------------------- users
\* INSERT INTO Users, commit. Users.email is UNIQUE: when the email given is
\* that of a member (any member may have it), the INSERT raises IntegrityError
\* and, with no try/finally, the connection stays open
create_user(c) ==
    /\ pc[c] = "idle"
    /\ lock = NoCaller
    /\ Begin(c, Call("create_user", 0, 0, 0, 0, 0, 0))
    /\ \/ /\ seqUsers < MaxUsers
          /\ Users' = Users \cup {seqUsers + 1}
          /\ seqUsers' = seqUsers + 1
          /\ Finish(c, RetId(seqUsers + 1))
          /\ UNCHANGED lock
       \/ /\ Users # {}
          /\ Finish(c, Raised("IntegrityError"))
          /\ lock' = LeakedConn
          /\ UNCHANGED <<Users, seqUsers>>
    /\ UNCHANGED <<Books, seqBooks, Borrow, seqBorrow, tx>>

\* UPDATE Users SET name = ?, phone = ?, email = ? (the fields given) WHERE
\* user_id = ?, commit; False at once when no field is given. When the email
\* given is that of another member the UPDATE raises IntegrityError and the
\* connection stays open
update_user(c) ==
    /\ pc[c] = "idle"
    /\ \E u \in UserIds, fields \in BOOLEAN :
        /\ Begin(c, Call("update_user", u, 0, 0, 0, 0, 0))
        /\ IF ~fields
           THEN /\ Finish(c, RetFalse)
                /\ UNCHANGED lock
           ELSE /\ lock = NoCaller
                /\ \/ /\ Finish(c, IF u \in Users THEN RetTrue ELSE RetFalse)
                      /\ UNCHANGED lock
                   \/ /\ u \in Users
                      /\ Users \ {u} # {}
                      /\ Finish(c, Raised("IntegrityError"))
                      /\ lock' = LeakedConn
    /\ UNCHANGED <<db, tx>>

\* delete_user: the call and its SELECT COUNT(*) of active borrows
delete_user(c) ==
    /\ pc[c] = "idle"
    /\ \E u \in UserIds :
        /\ Begin(c, Call("delete_user", u, 0, 0, 0, 0, 0))
        /\ IF CountActiveBorrows(Borrow, u) > 0
           THEN Finish(c, RetFalse)
           ELSE Goto(c, "delete_user_delete")
    /\ UNCHANGED <<db, lock, tx>>

\* faulty variant: the foreign key declared ON DELETE CASCADE, the member's
\* borrow records deleted with the member
delete_user_delete_cascading(c) ==
    /\ pc[c] = "delete_user_delete"
    /\ lock = NoCaller
    /\ Users' = Users \ {call[c].user_id}
    /\ Borrow' = {x \in Borrow : x.user_id # call[c].user_id}
    /\ Finish(c, IF call[c].user_id \in Users THEN RetTrue ELSE RetFalse)
    /\ UNCHANGED <<Books, seqBooks, seqUsers, seqBorrow, lock, tx, call, pre>>

\* delete_user: DELETE FROM Users, commit
delete_user_delete(c) ==
    /\ pc[c] = "delete_user_delete"
    /\ lock = NoCaller
    /\ LET u == call[c].user_id IN
        IF UserReferenced(Borrow, u)
        THEN /\ Finish(c, Raised("IntegrityError"))
             /\ lock' = LeakedConn
             /\ UNCHANGED Users
        ELSE /\ Users' = Users \ {u}
             /\ Finish(c, IF u \in Users THEN RetTrue ELSE RetFalse)
             /\ UNCHANGED lock
    /\ UNCHANGED <<Books, seqBooks, seqUsers, Borrow, seqBorrow, tx, call, pre>>

\* the interpreter collects a connection left open: its transaction is rolled
\* back and the write lock released
collect_connection ==
    /\ lock = LeakedConn
    /\ lock' = NoCaller
    /\ UNCHANGED <<db, tx, pc, call, ret, pre>>

\* ---------------------------------------------------------------- borrow
\* faulty variant: a member who holds an open record is turned away
borrow_book_one_per_member(c) ==
    /\ pc[c] = "idle"
    /\ seqBorrow + PendingInserts < MaxBorrows
    /\ \E u \in UserIds, b \in BookIds, d \in Dates :
        /\ Begin(c, Call("borrow_book", u, b, 0, d, 0, 0))
        /\ IF UserExists(Users, u) /\ CountActiveBorrows(Borrow, u) = 0
           THEN Goto(c, "borrow_update")
           ELSE Finish(c, RetNone)
    /\ UNCHANGED <<db, lock, tx>>

\* borrow_book: the call and its user check
borrow_book(c) ==
    /\ pc[c] = "idle"
    /\ seqBorrow + PendingInserts < MaxBorrows
    /\ \E u \in UserIds, b \in BookIds, d \in Dates :
        /\ Begin(c, Call("borrow_book", u, b, 0, d, 0, 0))
        /\ IF UserExists(Users, u)
           THEN Goto(c, "borrow_update")
           ELSE Finish(c, RetNone)
    /\ UNCHANGED <<db, lock, tx>>

\* faulty variant: a caller that finds the copy taken waits and tries again
borrow_book_update_retrying(c) ==
    /\ pc[c] = "borrow_update"
    /\ lock = NoCaller
    /\ MatchAvailable(Books, call[c].book_id) # {}
    /\ lock' = c
    /\ tx' = [Books |-> SetAvailable(Books, call[c].book_id, 0), Borrow |-> Borrow]
    /\ Goto(c, "borrow_insert")
    /\ UNCHANGED <<db, call, pre>>

\* faulty variant: the flip committed on its own, before the INSERT
borrow_book_update_autocommit(c) ==
    /\ pc[c] = "borrow_update"
    /\ lock = NoCaller
    /\ LET b == call[c].book_id IN
        IF MatchAvailable(Books, b) # {}
        THEN /\ lock' = c
             /\ Books' = SetAvailable(Books, b, 0)
             /\ tx' = [Books |-> SetAvailable(Books, b, 0), Borrow |-> Borrow]
             /\ Goto(c, "borrow_insert")
        ELSE /\ Finish(c, RetNone)
             /\ UNCHANGED <<Books, lock, tx>>
    /\ UNCHANGED <<seqBooks, Users, seqUsers, Borrow, seqBorrow, call, pre>>

\* borrow_book: the conditional UPDATE of Books
borrow_book_update(c) ==
    /\ pc[c] = "borrow_update"
    /\ lock = NoCaller
    /\ LET b == call[c].book_id IN
        IF MatchAvailable(Books, b) # {}
        THEN /\ lock' = c
             /\ tx' = [Books |-> SetAvailable(Books, b, 0), Borrow |-> Borrow]
             /\ Goto(c, "borrow_insert")
        ELSE /\ Finish(c, RetNone)
             /\ UNCHANGED <<lock, tx>>
    /\ UNCHANGED <<db, call, pre>>

\* borrow_book: the INSERT into Borrow, then commit (or rollback and re-raise)
borrow_book_insert(c) ==
    /\ pc[c] = "borrow_insert"
    /\ lock = c
    /\ LET row == BorrowRow(seqBorrow + 1, call[c].book_id, call[c].user_id,
                            call[c].borrow_date, NULL) IN
        IF ForeignKeysHold(tx.Books, Users, row)
        THEN /\ Books' = tx.Books
             /\ Borrow' = tx.Borrow \cup {row}
             /\ seqBorrow' = seqBorrow + 1
             /\ Finish(c, RetId(row.borrow_id))
        ELSE /\ Finish(c, Raised("IntegrityError"))
             /\ UNCHANGED <<Books, Borrow, seqBorrow>>
    /\ lock' = NoCaller
    /\ tx' = NoTx
    /\ UNCHANGED <<seqBooks, Users, seqUsers, call, pre>>

\* return_book: the call and its SELECT of the active borrow
return_book(c) ==
    /\ pc[c] = "idle"
    /\ \E r \in BorrowIds, rd \in Dates :
        LET rows == MatchOpen(Borrow, r) IN
        IF rows = {}
        THEN /\ Begin(c, Call("return_book", 0, 0, r, 0, rd, 0))
             /\ Finish(c, RetFalse)
        ELSE /\ \E row \in rows :
                  Begin(c, Call("return_book", 0, row.book_id, r, 0, rd, 0))
             /\ Goto(c, "return_close")
    /\ UNCHANGED <<db, lock, tx>>

\* faulty variant: the close without its rowcount check
return_book_close_unchecked(c) ==
    /\ pc[c] = "return_close"
    /\ lock = NoCaller
    /\ lock' = c
    /\ tx' = [Books |-> Books,
              Borrow |-> CloseBorrow(Borrow, call[c].borrow_id, call[c].return_date)]
    /\ Goto(c, "return_flip")
    /\ UNCHANGED <<db, call, pre>>

\* return_book: the conditional UPDATE closing the borrow
return_book_close(c) ==
    /\ pc[c] = "return_close"
    /\ lock = NoCaller
    /\ LET r == call[c].borrow_id IN
        IF MatchOpen(Borrow, r) # {}
        THEN /\ lock' = c
             /\ tx' = [Books |-> Books, Borrow |-> CloseBorrow(Borrow, r, call[c].return_date)]
             /\ Goto(c, "return_flip")
        ELSE /\ Finish(c, RetFalse)
             /\ UNCHANGED <<lock, tx>>
    /\ UNCHANGED <<db, call, pre>>

\* faulty variant: the commit without the UPDATE marking the book available
return_book_flip_missing(c) ==
    /\ pc[c] = "return_flip"
    /\ lock = c
    /\ Books' = tx.Books
    /\ Borrow' = tx.Borrow
    /\ Finish(c, RetTrue)
    /\ lock' = NoCaller
    /\ tx' = NoTx
    /\ UNCHANGED <<seqBooks, Users, seqUsers, seqBorrow, call, pre>>

\* return_book: the UPDATE marking the book available, then commit
return_book_flip(c) ==
    /\ pc[c] = "return_flip"
    /\ lock = c
    /\ Books' = SetAvailable(tx.Books, call[c].book_id, 1)
    /\ Borrow' = tx.Borrow
    /\ Finish(c, RetTrue)
    /\ lock' = NoCaller
    /\ tx' = NoTx
    /\ UNCHANGED <<seqBooks, Users, seqUsers, seqBorrow, call, pre>>

\* ------------------------------------------------------ storage failures
\* conn.rollback() and conn.close(): the caller's uncommitted writes are
\* dropped and the write lock, if it holds it, is released
Rollback(c) ==
    /\ lock' = IF lock = c THEN NoCaller ELSE lock
    /\ tx' = IF lock = c THEN NoTx ELSE tx

\* borrow_book: a statement raises (I/O error, or "database is locked" after
\* the busy timeout); except: rollback, re-raise; finally: close
borrow_book_except(c) ==
    /\ \/ /\ pc[c] = "idle"
          /\ \E u \in UserIds, b \in BookIds, d \in Dates :
                Begin(c, Call("borrow_book", u, b, 0, d, 0, 0))
          /\ ret' = [ret EXCEPT ![c] = RaisedAt("OperationalError", 1)]
       \/ /\ pc[c] = "borrow_update"
          /\ ret' = [ret EXCEPT ![c] = RaisedAt("OperationalError", 2)]
          /\ UNCHANGED <<call, pre>>
       \/ /\ pc[c] = "borrow_insert"
          /\ ret' = [ret EXCEPT ![c] = RaisedAt("OperationalError", 3)]
          /\ UNCHANGED <<call, pre>>
    /\ pc' = [pc EXCEPT ![c] = "idle"]
    /\ Rollback(c)
    /\ UNCHANGED db

\* return_book: a statement raises; except: rollback, re-raise; finally: close
return_book_except(c) ==
    /\ \/ /\ pc[c] = "idle"
          /\ \E r \in BorrowIds, rd \in Dates :
                Begin(c, Call("return_book", 0, 0, r, 0, rd, 0))
          /\ ret' = [ret EXCEPT ![c] = RaisedAt("OperationalError", 1)]
       \/ /\ pc[c] = "return_close"
          /\ ret' = [ret EXCEPT ![c] = RaisedAt("OperationalError", 2)]
          /\ UNCHANGED <<call, pre>>
       \/ /\ pc[c] = "return_flip"
          /\ ret' = [ret EXCEPT ![c] = RaisedAt("OperationalError", 3)]
          /\ UNCHANGED <<call, pre>>
    /\ pc' = [pc EXCEPT ![c] = "idle"]
    /\ Rollback(c)
    /\ UNCHANGED db

\* ------------------------------------------------------- the specification
\* every step of every operation, by caller c
Step(c) ==
    \/ add_book(c)
    \/ update_book_availability(c)
    \/ delete_book(c)
    \/ delete_book_delete(c)
    \/ create_user(c)
    \/ update_user(c)
    \/ delete_user(c)
    \/ delete_user_delete(c)
    \/ borrow_book(c)
    \/ borrow_book_update(c)
    \/ borrow_book_insert(c)
    \/ return_book(c)
    \/ return_book_close(c)
    \/ return_book_flip(c)

\* the sequential program: one caller, one call at a time
Next == Step(MainCaller) \/ collect_connection

Spec == Init /\ [][Next]_vars

\* ------------------------------------------------- concurrent callers
\* Tables the sequential program leaves behind: every book and member created
\* (add_book, create_user) and at most one earlier borrow of copy b0 by member
\* u0, still open (h = "open") or returned (h = "closed").
RaceTables(h, b0, u0, d0) ==
    Tables([b \in BookIds |-> IF h = "open" /\ b = b0 THEN 0 ELSE 1],
           UserIds,
           IF h = "none" THEN {}
           ELSE {BorrowRow(1, b0, u0, d0, IF h = "open" THEN NULL ELSE d0)})

RaceInit ==
    /\ \E h \in {"none", "open", "closed"}, b0 \in BookIds, u0 \in UserIds, d0 \in Dates :
        /\ Books = RaceTables(h, b0, u0, d0).Books
        /\ Users = RaceTables(h, b0, u0, d0).Users
        /\ Borrow = RaceTables(h, b0, u0, d0).Borrow
    /\ seqBooks = MaxBooks
    /\ seqUsers = MaxUsers
    /\ seqBorrow = Cardinality(Borrow)
    /\ lock = NoCaller
    /\ tx = NoTx
    /\ pc = [c \in Callers |-> "idle"]
    /\ call = [c \in Callers |-> NoCall]
    /\ ret = [c \in Callers |-> NoRet]
    /\ pre = [c \in Callers |-> Tables(Books, Users, Borrow)]

\* each caller (a separate process) makes one ledger call; the statements of
\* the calls interleave in every order the write lock allows
RaceNext ==
    \E c \in Callers :
        \/ call[c] = NoCall /\ borrow_book(c)
        \/ call[c] = NoCall /\ return_book(c)
        \/ borrow_book_update(c)
        \/ borrow_book_insert(c)
        \/ return_book_close(c)
        \/ return_book_flip(c)

SpecRace == RaceInit /\ [][RaceNext]_vars

\* ------------------------------------------------------ fair scheduling
\* the statements a caller that has begun a call still has to execute
Continue(c) ==
    \/ borrow_book_update(c)
    \/ borrow_book_insert(c)
    \/ return_book_close(c)
    \/ return_book_flip(c)

\* SpecRace with every caller (a process of its own, running straight-line
\* code) scheduled fairly: a statement that stays executable is executed
SpecLive == RaceInit /\ [][RaceNext]_vars /\ \A c \in Callers : WF_vars(Continue(c))

\* ------------------------------------------- callers and storage failures
Racers == {"c1", "c2"}

\* two callers, one ledger call each; any statement of a call may fail
FaultNext ==
    \E c \in Racers :
        \/ call[c] = NoCall /\ borrow_book(c)
        \/ call[c] = NoCall /\ return_book(c)
        \/ borrow_book_update(c)
        \/ borrow_book_insert(c)
        \/ return_book_close(c)
        \/ return_book_flip(c)
        \/ (pc[c] = "idle" => call[c] = NoCall) /\ borrow_book_except(c)
        \/ (pc[c] = "idle" => call[c] = NoCall) /\ return_book_except(c)

SpecFault == RaceInit /\ [][FaultNext]_vars

\* ------------------------------------------ ledger and registry callers
\* each caller makes one call of the ledger (borrow_book, return_book) or of
\* a registry delete; the statements of the calls interleave
DeleteNext ==
    \/ \E c \in Callers :
        \/ call[c] = NoCall /\ borrow_book(c)
        \/ call[c] = NoCall /\ return_book(c)
        \/ call[c] = NoCall /\ delete_book(c)
        \/ call[c] = NoCall /\ delete_user(c)
        \/ borrow_book_update(c)
        \/ borrow_book_insert(c)
        \/ return_book_close(c)
        \/ return_book_flip(c)
        \/ delete_book_delete(c)
        \/ delete_user_delete(c)
    \/ collect_connection

SpecDelete == RaceInit /\ [][DeleteNext]_vars

\* ------------------------------------- callers that never set a flag
\* Tables the sequential program leaves behind without a call of
\* update_book_availability: nb books and nu members created, and at most one
\* earlier borrow of copy b0 by member u0, still open or returned.
LedgerTables(nb, nu, h, b0, u0, d0) ==
    Tables([b \in 1..nb |-> IF h = "open" /\ b = b0 THEN 0 ELSE 1],
           1..nu,
           IF h = "none" THEN {}
           ELSE {BorrowRow(1, b0, u0, d0, IF h = "open" THEN NULL ELSE d0)})

LedgerInit ==
    /\ \E nb \in BookIds, nu \in UserIds :
        \E h \in {"none", "open", "closed"}, b0 \in 1..nb, u0 \in 1..nu, d0 \in Dates :
            /\ Books = LedgerTables(nb, nu, h, b0, u0, d0).Books
            /\ Users = LedgerTables(nb, nu, h, b0, u0, d0).Users
            /\ Borrow = LedgerTables(nb, nu, h, b0, u0, d0).Borrow
            /\ seqBooks = nb
            /\ seqUsers = nu
    /\ seqBorrow = Cardinality(Borrow)
    /\ lock = NoCaller
    /\ tx = NoTx
    /\ pc = [c \in Callers |-> "idle"]
    /\ call = [c \in Callers |-> NoCall]
    /\ ret = [c \in Callers |-> NoRet]
    /\ pre = [c \in Callers |-> Tables(Books, Users, Borrow)]

\* each caller makes one call of any write operation but
\* update_book_availability; the statements of the calls interleave
LedgerNext ==
    \/ \E c \in Callers :
        \/ call[c] = NoCall /\ add_book(c)
        \/ call[c] = NoCall /\ delete_book(c)
        \/ call[c] = NoCall /\ create_user(c)
        \/ call[c] = NoCall /\ update_user(c)
        \/ call[c] = NoCall /\ delete_user(c)
        \/ call[c] = NoCall /\ borrow_book(c)
        \/ call[c] = NoCall /\ return_book(c)
        \/ delete_book_delete(c)
        \/ delete_user_delete(c)
        \/ borrow_book_update(c)
        \/ borrow_book_insert(c)
        \/ return_book_close(c)
        \/ return_book_flip(c)
    \/ collect_connection

SpecLedger == LedgerInit /\ [][LedgerNext]_vars

\* ---------------------------------------------------- reports and queries
\* The read operations run one SELECT each on the committed tables. Columns
\* the write operations never read are not part of the tables above: title
\* and author of a copy are given to add_book and never updated, and a query
\* sees them as the assignment `catalog` the callers of add_book have chosen;
\* year, name, phone and email are left out, and a WHERE or ORDER BY on one of
\* them selects any rows, in any order.
Catalogs(books) == [DOMAIN books -> [title : Titles, author : Authors]]

\* ORDER BY `order`: row x has to precede row y. A key on a column that is
\* left out ("unmodelled") orders nothing.
Before(order, x, y) ==
    CASE order = "book_id" -> x.book_id < y.book_id
      [] order = "title" -> x.title < y.title
      [] order = "title, book_id" ->
            \/ x.title < y.title
            \/ x.title = y.title /\ x.book_id < y.book_id
      [] order = "borrow_date DESC" -> x.borrow_date > y.borrow_date
      [] order = "borrow_date DESC, return_date DESC" ->
            \/ x.borrow_date > y.borrow_date
            \/ /\ x.borrow_date = y.borrow_date
               /\ x.return_date > y.return_date
      [] order = "borrow_count DESC" -> x.borrow_count > y.borrow_count
      [] OTHER -> FALSE

\* ORDER BY: the rows in every order in which no row comes after a row it
\* has to precede (rows with equal keys come in any order)
Orderings(rows, order) ==
    {s \in [1..Cardinality(rows) -> rows] :
        \A i, j \in 1..Cardinality(rows) :
            i < j => (s[i] # s[j] /\ ~Before(order, s[j], s[i]))}

\* the columns of a Books row
BookRowOf(books, catalog, b) ==
    [book_id |-> b, title |-> catalog[b].title, author |-> catalog[b].author,
     available |-> books[b]]

\* Borrow AS b JOIN Books AS bk ON bk.book_id = b.book_id
BorrowJoinBooks(borrow, books, catalog) ==
    {[borrow_id |-> x.borrow_id, book_id |-> x.book_id, user_id |-> x.user_id,
      borrow_date |-> x.borrow_date, return_date |-> x.return_date,
      title |-> catalog[x.book_id].title, author |-> catalog[x.book_id].author] :
        x \in {y \in borrow : y.book_id \in DOMAIN books}}

\* Borrow AS b JOIN Users AS u ON u.user_id = b.user_id
BorrowJoinUsers(borrow, users) == {x \in borrow : x.user_id \in users}

\* a read operation: cursor, SELECT, fetch, close; it returns the rows
Read(c, op, u, b, catalog, rows) ==
    /\ pc[c] = "idle"
    /\ call' = [call EXCEPT ![c] = Call(op, u, b, 0, 0, 0, 0)]
    /\ pre' = [pre EXCEPT ![c] = [Books |-> Books, Users |-> Users, Borrow |-> Borrow,
                                  Catalog |-> catalog]]
    /\ Finish(c, Result("rows", rows))
    /\ UNCHANGED <<db, lock, tx>>

\* ---- books.py
list_books(c) ==
    \E catalog \in Catalogs(Books) :
    \E rows \in Orderings({BookRowOf(Books, catalog, b) : b \in DOMAIN Books},
                          "book_id") :
        Read(c, "list_books", 0, 0, catalog, rows)

\* WHERE title LIKE ?: `matching` are the titles that contain the keyword
find_books(c) ==
    \E catalog \in Catalogs(Books), matching \in SUBSET Titles :
    \E rows \in Orderings({[book_id |-> b, title |-> catalog[b].title] :
                              b \in {x \in DOMAIN Books : catalog[x].title \in matching}},
                          "title") :
        Read(c, "find_books", 0, 0, catalog, rows)

available_books(c) ==
    \E catalog \in Catalogs(Books) :
    \E rows \in Orderings({[book_id |-> b, title |-> catalog[b].title] :
                              b \in {x \in DOMAIN Books : Books[x] = 1}},
                          "title") :
        Read(c, "available_books", 0, 0, catalog, rows)

\* ORDER BY year, title
books_by_author(c) ==
    \E catalog \in Catalogs(Books), author \in Authors :
    \E rows \in Orderings({BookRowOf(Books, catalog, b) :
                              b \in {x \in DOMAIN Books : catalog[x].author = author}},
                          "unmodelled") :
        Read(c, "books_by_author", 0, 0, catalog, rows)

\* WHERE year BETWEEN ? AND ?: `inrange` are the copies published in the
\* range; a None bound raises ValueError before any connection is opened
books_between_years(c) ==
    \/ /\ pc[c] = "idle"
       /\ Begin(c, Call("books_between_years", 0, 0, 0, 0, 0, 0))
       /\ Finish(c, Raised("ValueError"))
       /\ UNCHANGED <<db, lock, tx>>
    \/ \E catalog \in Catalogs(Books), inrange \in SUBSET DOMAIN Books :
       \E rows \in Orderings({BookRowOf(Books, catalog, b) : b \in inrange}, "unmodelled") :
           Read(c, "books_between_years", 0, 0, catalog, rows)

\* ---- users.py
\* fetchone(): the row, or None
get_user(c) ==
    \E u \in UserIds :
        Read(c, "get_user", u, 0, <<>>, IF u \in Users THEN <<[user_id |-> u]>> ELSE <<>>)

\* WHERE phone = ?: fetchone() gives one of the members with that phone, or None
find_user_by_phone(c) ==
    \E rows \in {<<>>} \cup {<<[user_id |-> u]>> : u \in Users} :
        Read(c, "find_user_by_phone", 0, 0, <<>>, rows)

\* WHERE email = ?: email is UNIQUE
find_user_by_email(c) ==
    \E rows \in {<<>>} \cup {<<[user_id |-> u]>> : u \in Users} :
        Read(c, "find_user_by_email", 0, 0, <<>>, rows)

\* ORDER BY name
list_users(c) ==
    \E rows \in Orderings({[user_id |-> u] : u \in Users}, "unmodelled") :
        Read(c, "list_users", 0, 0, <<>>, rows)

borrowed_books_of_user(c) ==
    \E catalog \in Catalogs(Books), u \in UserIds, active_only \in BOOLEAN :
    \E rows \in Orderings({x \in BorrowJoinBooks(Borrow, Books, catalog) :
                              x.user_id = u /\ (active_only => x.return_date = NULL)},
                          "borrow_date DESC") :
        Read(c, "borrowed_books_of_user", u, 0, catalog, rows)

\* SELECT COUNT(*) ... WHERE user_id = ? [AND return_date IS NULL]
count_borrowed_books_of_user(c) ==
    \E u \in UserIds, active_only \in BOOLEAN :
        Read(c, "count_borrowed_books_of_user", u, 0, <<>>,
             <<[cnt |-> Cardinality({x \in Borrow :
                          x.user_id = u /\ (active_only => x.return_date = NULL)})]>>)

\* ---- borrow.py
list_user_borrows(c) ==
    \E catalog \in Catalogs(Books), u \in UserIds, active_only \in BOOLEAN :
    \E rows \in Orderings({x \in BorrowJoinBooks(Borrow, Books, catalog) :
                              x.user_id = u /\ (active_only => x.return_date = NULL)},
                          "borrow_date DESC") :
        Read(c, "list_user_borrows", u, 0, catalog, rows)

list_active_borrows(c) ==
    \E catalog \in Catalogs(Books) :
    \E rows \in Orderings({x \in BorrowJoinBooks(BorrowJoinUsers(Borrow, Users), Books, catalog) :
                              x.return_date = NULL},
                          "borrow_date DESC") :
        Read(c, "list_active_borrows", 0, 0, catalog, rows)

\* SELECT DISTINCT u.user_id, ... ORDER BY u.name
list_active_users(c) ==
    \E rows \in Orderings({[user_id |-> x.user_id] :
                              x \in {y \in BorrowJoinUsers(Borrow, Users) : y.return_date = NULL}},
                          "unmodelled") :
        Read(c, "list_active_users", 0, 0, <<>>, rows)

list_borrow_history(c) ==
    \E catalog \in Catalogs(Books) :
    \E rows \in Orderings(BorrowJoinBooks(BorrowJoinUsers(Borrow, Users), Books, catalog),
                          "borrow_date DESC, return_date DESC") :
        Read(c, "list_borrow_history", 0, 0, catalog, rows)

list_users_who_borrowed_book(c) ==
    \E b \in BookIds :
    \E rows \in Orderings({x \in BorrowJoinUsers(Borrow, Users) : x.book_id = b},
                          "borrow_date DESC") :
        Read(c, "list_users_who_borrowed_book", 0, b, <<>>, rows)

\* faulty variant: a member is created when no row has the phone
get_user_id_by_phone_creating(c) ==
    /\ pc[c] = "idle"
    /\ seqUsers < MaxUsers + 1
    /\ Begin(c, Call("get_user_id_by_phone", 0, 0, 0, 0, 0, 0))
    /\ Users' = Users \cup {seqUsers + 1}
    /\ seqUsers' = seqUsers + 1
    /\ Finish(c, Result("rows", <<[user_id |-> seqUsers + 1]>>))
    /\ UNCHANGED <<Books, seqBooks, Borrow, seqBorrow, lock, tx>>

\* WHERE phone = ?: fetchone() gives one of the members with that phone, or None
get_user_id_by_phone(c) ==
    \E rows \in {<<>>} \cup {<<[user_id |-> u]>> : u \in Users} :
        Read(c, "get_user_id_by_phone", 0, 0, <<>>, rows)

\* get_user_id_by_phone, then list_user_borrows of the member found
list_borrows_by_phone(c) ==
    \/ Read(c, "list_borrows_by_phone", 0, 0, <<>>, <<>>)
    \/ \E catalog \in Catalogs(Books), u \in Users, active_only \in BOOLEAN :
       \E rows \in Orderings({x \in BorrowJoinBooks(Borrow, Books, catalog) :
                                 x.user_id = u /\ (active_only => x.return_date = NULL)},
                             "borrow_date DESC") :
           Read(c, "list_borrows_by_phone", u, 0, catalog, rows)

\* ---- reports.py
\* ORDER BY title, book_id
full_books_catalog(c) ==
    \E catalog \in Catalogs(Books) :
    \E rows \in Orderings({BookRowOf(Books, catalog, b) : b \in DOMAIN Books},
                          "title, book_id") :
        Read(c, "full_books_catalog", 0, 0, catalog, rows)

full_users_list(c) ==
    \E rows \in Orderings({[user_id |-> u] : u \in Users}, "unmodelled") :
        Read(c, "full_users_list", 0, 0, <<>>, rows)

full_borrow_history(c) ==
    \E catalog \in Catalogs(Books) :
    \E rows \in Orderings(BorrowJoinBooks(BorrowJoinUsers(Borrow, Users), Books, catalog),
                          "borrow_date DESC") :
        Read(c, "full_borrow_history", 0, 0, catalog, rows)

currently_available_books(c) ==
    \E catalog \in Catalogs(Books) :
    \E rows \in Orderings({[book_id |-> b, title |-> catalog[b].title,
                             author |-> catalog[b].author] :
                              b \in {x \in DOMAIN Books : Books[x] = 1}},
                          "title") :
        Read(c, "currently_available_books", 0, 0, catalog, rows)

currently_borrowed_books(c) ==
    \E catalog \in Catalogs(Books) :
    \E rows \in Orderings({x \in BorrowJoinBooks(BorrowJoinUsers(Borrow, Users), Books, catalog) :
                              x.return_date = NULL},
                          "borrow_date DESC") :
        Read(c, "currently_borrowed_books", 0, 0, catalog, rows)

users_with_active_borrows(c) ==
    \E rows \in Orderings({[user_id |-> x.user_id] :
                              x \in {y \in BorrowJoinUsers(Borrow, Users) : y.return_date = NULL}},
                          "unmodelled") :
        Read(c, "users_with_active_borrows", 0, 0, <<>>, rows)

borrow_history_of_book(c) ==
    \E b \in BookIds :
    \E rows \in Orderings({x \in BorrowJoinUsers(Borrow, Users) : x.book_id = b},
                          "borrow_date DESC") :
        Read(c, "borrow_history_of_book", 0, b, <<>>, rows)

\* faulty variant: GROUP BY bk.book_id, one entry per copy
MostBorrowedRows_per_copy(borrow, books, catalog) ==
    {[title |-> catalog[b].title, author |-> catalog[b].author,
      borrow_count |-> Cardinality({x \in borrow : x.book_id = b})] :
        b \in {x.book_id : x \in BorrowJoinBooks(borrow, books, catalog)}}

\* SELECT bk.title, bk.author, COUNT(b.borrow_id) FROM Borrow AS b JOIN Books
\* AS bk ... GROUP BY bk.title, bk.author: one row per group of joined rows
MostBorrowedRows(borrow, books, catalog) ==
    LET joined == BorrowJoinBooks(borrow, books, catalog)
        groups == {<<x.title, x.author>> : x \in joined}
    IN  {[title |-> g[1], author |-> g[2],
          borrow_count |-> Cardinality({x \in joined : x.title = g[1] /\ x.author = g[2]})] :
            g \in groups}

\* ... ORDER BY borrow_count DESC
most_borrowed_books(c) ==
    \E catalog \in Catalogs(Books) :
    \E rows \in Orderings(MostBorrowedRows(Borrow, Books, catalog),
                          "borrow_count DESC") :
        Read(c, "most_borrowed_books", 0, 0, catalog, rows)

borrow_history_of_user(c) ==
    \E catalog \in Catalogs(Books), u \in UserIds :
    \E rows \in Orderings({x \in BorrowJoinBooks(Borrow, Books, catalog) : x.user_id = u},
                          "borrow_date DESC") :
        Read(c, "borrow_history_of_user", u, 0, catalog, rows)

\* Users AS u LEFT JOIN Borrow AS b ... GROUP BY u.user_id, u.name
users_by_borrow_count(c) ==
    \E rows \in Orderings({[user_id |-> u,
                             borrow_count |-> Cardinality({x \in Borrow : x.user_id = u})] :
                              u \in Users},
                          "borrow_count DESC") :
        Read(c, "users_by_borrow_count", 0, 0, <<>>, rows)

\* the read operations, by caller c
ReadStep(c) ==
    \/ list_books(c)
    \/ find_books(c)
    \/ available_books(c)
    \/ books_by_author(c)
    \/ books_between_years(c)
    \/ get_user(c)
    \/ find_user_by_phone(c)
    \/ find_user_by_email(c)
    \/ list_users(c)
    \/ borrowed_books_of_user(c)
    \/ count_borrowed_books_of_user(c)
    \/ list_user_borrows(c)
    \/ list_active_borrows(c)
    \/ list_active_users(c)
    \/ list_borrow_history(c)
    \/ list_users_who_borrowed_book(c)
    \/ get_user_id_by_phone(c)
    \/ list_borrows_by_phone(c)
    \/ full_books_catalog(c)
    \/ full_users_list(c)
    \/ full_borrow_history(c)
    \/ currently_available_books(c)
    \/ currently_borrowed_books(c)
    \/ users_with_active_borrows(c)
    \/ borrow_history_of_book(c)
    \/ most_borrowed_books(c)
    \/ borrow_history_of_user(c)
    \/ users_by_borrow_count(c)


\* Every table state the write operations can leave behind: any set of
\* copies with any flags (update_book_availability sets them freely), any
\* set of members, and borrow records 1..n in any state of their lifecycle
\* whose copy and member exist (the foreign keys).
BorrowTables(books, users) ==
    {{}} \cup
    {{BorrowRow(1, b, u, d, rd)} :
        b \in DOMAIN books, u \in users, d \in Dates, rd \in Dates \cup {NULL}} \cup
    {{BorrowRow(1, b1, u1, d1, rd1), BorrowRow(2, b2, u2, d2, rd2)} :
        b1 \in DOMAIN books, u1 \in users, d1 \in Dates, rd1 \in Dates \cup {NULL},
        b2 \in DOMAIN books, u2 \in users, d2 \in Dates, rd2 \in Dates \cup {NULL}}

ReportInit ==
    /\ \E ids \in SUBSET BookIds : Books \in [ids -> {0, 1}]
    /\ Users \in SUBSET UserIds
    /\ Borrow \in BorrowTables(Books, Users)
    /\ seqBooks = MaxBooks
    /\ seqUsers = MaxUsers
    /\ seqBorrow = Cardinality(Borrow)
    /\ lock = NoCaller
    /\ tx = NoTx
    /\ pc = [c \in Callers |-> "idle"]
    /\ call = [c \in Callers |-> NoCall]
    /\ ret = [c \in Callers |-> NoRet]
    /\ pre = [c \in Callers |-> Tables(Books, Users, Borrow)]

\* the reporting program: one read operation on the tables left by the writes
ReportNext == call[MainCaller] = NoCall /\ ReadStep(MainCaller)

SpecReports == ReportInit /\ [][ReportNext]_vars

\* ------------------------------------------------------------ properties
OpenBorrows(borrow, b) == {x \in borrow : x.book_id = b /\ x.return_date = NULL}
ClosedBorrows(borrow) == {x \in borrow : x.return_date # NULL}
BorrowIdsOf(borrow) == {x.borrow_id : x \in borrow}
Idle == \A c \in Callers : pc[c] = "idle"
\* caller c has completed a call of op
Done(c, op) == pc[c] = "idle" /\ call[c].op = op
Available(books, b) == b \in DOMAIN books /\ books[b] = 1
Unavailable(books, b) == b \in DOMAIN books /\ books[b] = 0
TablesUnchanged(c) ==
    /\ Books = pre[c].Books
    /\ Users = pre[c].Users
    /\ Borrow = pre[c].Borrow

\* C1: in every reachable state every book copy is referenced by at most one
\* open borrow record (a record whose return_date is NULL).
C1_AtMostOneOpenBorrowPerCopy ==
    \A b \in BookIds : Cardinality(OpenBorrows(Borrow, b)) <= 1

\* c1 and c2 have both completed a borrow_book that began on the same existing,
\* available copy with its member existing, and no third caller was active
BorrowRace(c1, c2) ==
    /\ c1 # c2
    /\ Done(c1, "borrow_book")
    /\ Done(c2, "borrow_book")
    /\ call[c1].book_id = call[c2].book_id
    /\ Available(pre[c1].Books, call[c1].book_id)
    /\ Available(pre[c2].Books, call[c2].book_id)
    /\ call[c1].user_id \in pre[c1].Users
    /\ call[c2].user_id \in pre[c2].Users
    /\ \A c3 \in Callers \ {c1, c2} : call[c3] = NoCall

\* C2: two borrow_book calls that both began on the same existing, available
\* copy, with both members existing and no other caller active: once both have
\* completed, exactly one returned a new borrow_id, the other returned None,
\* and exactly one borrow record for that copy was created.
C2_ExactlyOneBorrowWins ==
    \A c1, c2 \in Callers :
        BorrowRace(c1, c2) =>
            LET b == call[c1].book_id
                created == {x \in Borrow \ pre[c1].Borrow : x.book_id = b}
            IN  /\ {ret[c1].kind, ret[c2].kind} = {"id", "None"}
                /\ Cardinality(created) = 1
                /\ \A x \in created :
                      \/ ret[c1] = RetId(x.borrow_id) /\ x.user_id = call[c1].user_id
                      \/ ret[c2] = RetId(x.borrow_id) /\ x.user_id = call[c2].user_id

\* the call that began on an available copy and lost it to the other member
C2_Witness ==
    \E c1, c2 \in Callers :
        /\ BorrowRace(c1, c2)
        /\ call[c1].user_id # call[c2].user_id
        /\ ret[c1] = RetNone
        /\ ret[c2].kind = "id"

\* C3: in every state left by completed operations (no call in progress) a
\* book copy has available = 0 if and only if an open borrow record references it.
C3_FlagAgreesWithLedger ==
    Idle => \A b \in DOMAIN Books : (Books[b] = 0) <=> (OpenBorrows(Borrow, b) # {})

\* C4: a borrow_book call on a copy whose available flag is 0 returns None,
\* whatever the member, creates no borrow record and changes no book flag.
C4_BorrowUnavailableRejected ==
    (/\ Done(MainCaller, "borrow_book")
     /\ Unavailable(pre[MainCaller].Books, call[MainCaller].book_id))
        => /\ ret[MainCaller] = RetNone
           /\ TablesUnchanged(MainCaller)

\* an existing member asks for a copy that is out on an open record
C4_Witness ==
    /\ Done(MainCaller, "borrow_book")
    /\ Unavailable(pre[MainCaller].Books, call[MainCaller].book_id)
    /\ call[MainCaller].user_id \in pre[MainCaller].Users
    /\ OpenBorrows(Borrow, call[MainCaller].book_id) # {}
    /\ ret[MainCaller] = RetNone

\* C5: a return_book(r, d) that returns True leaves record r closed with
\* return_date d; a return_book(r, d2) on a record already closed returns
\* False and leaves every borrow record (so r's return_date) and every book's
\* availability flag as they were before the call.
C5_SecondReturnRejected ==
    Done(MainCaller, "return_book") =>
        LET r == call[MainCaller].borrow_id IN
        /\ ret[MainCaller] = RetTrue =>
              \E x \in Borrow : /\ x.borrow_id = r
                                /\ x.return_date = call[MainCaller].return_date
                                /\ x.return_date # NULL
        /\ (\E x \in ClosedBorrows(pre[MainCaller].Borrow) : x.borrow_id = r) =>
              /\ ret[MainCaller] = RetFalse
              /\ TablesUnchanged(MainCaller)

\* a second return, with another date, of a record already closed
C5_Witness ==
    /\ Done(MainCaller, "return_book")
    /\ ret[MainCaller] = RetFalse
    /\ \E x \in ClosedBorrows(Borrow) :
          /\ x.borrow_id = call[MainCaller].borrow_id
          /\ x.return_date # call[MainCaller].return_date

\* c1 and c2 have both completed a return_book that began on the same open
\* record; the third caller made no call or a borrow_book
ReturnRace(c1, c2) ==
    /\ c1 # c2
    /\ Done(c1, "return_book")
    /\ Done(c2, "return_book")
    /\ call[c1].borrow_id = call[c2].borrow_id
    /\ MatchOpen(pre[c1].Borrow, call[c1].borrow_id) # {}
    /\ MatchOpen(pre[c2].Borrow, call[c2].borrow_id) # {}
    /\ \A c3 \in Callers \ {c1, c2} : call[c3].op \in {"none", "borrow_book"}

\* C6: two return_book calls that both began on the same open borrow record,
\* the third caller idle or running borrow_book: once both have completed,
\* exactly one returned True and the other False, the record's return_date is
\* the winner's date, and the loser wrote no availability flag (the flag of
\* the record's copy is 0 exactly when a later borrow_book has committed an
\* open record for it).
C6_ExactlyOneReturnWins ==
    \A c1, c2 \in Callers :
        ReturnRace(c1, c2) =>
            /\ {ret[c1], ret[c2]} = {RetTrue, RetFalse}
            /\ \A x \in Borrow :
                  x.borrow_id = call[c1].borrow_id =>
                      /\ x.return_date = (IF ret[c1] = RetTrue THEN call[c1].return_date
                                          ELSE call[c2].return_date)
                      /\ (Books[x.book_id] = 0) <=> (OpenBorrows(Borrow, x.book_id) # {})
            /\ BorrowIdsOf(MatchOpen(pre[c1].Borrow, call[c1].borrow_id)) \subseteq BorrowIdsOf(Borrow)

\* the loser of the race finished after a borrow_book re-borrowed the copy
C6_Witness ==
    \E c1, c2, c3 \in Callers :
        /\ ReturnRace(c1, c2)
        /\ call[c1].return_date # call[c2].return_date
        /\ ret[c1] = RetTrue
        /\ Done(c3, "borrow_book")
        /\ ret[c3].kind = "id"
        /\ call[c3].book_id = call[c1].book_id
        /\ Books[call[c1].book_id] = 0

\* C7: on an available copy borrow_book by an existing member succeeds with a
\* borrow_id not issued before and takes the flag from 1 to 0; return_book of
\* an open record returns True and takes the flag of its copy back to 1; so
\* borrow, return, borrow again succeeds each time (flag 1, 0, 1, 0), however
\* often it is repeated.
C7_BorrowReturnBorrowAgain ==
    /\ (/\ Done(MainCaller, "borrow_book")
        /\ call[MainCaller].user_id \in pre[MainCaller].Users
        /\ Available(pre[MainCaller].Books, call[MainCaller].book_id))
          => /\ ret[MainCaller].kind = "id"
             /\ ret[MainCaller].val \notin BorrowIdsOf(pre[MainCaller].Borrow)
             /\ BorrowRow(ret[MainCaller].val, call[MainCaller].book_id,
                          call[MainCaller].user_id, call[MainCaller].borrow_date, NULL)
                    \in Borrow
             /\ Unavailable(Books, call[MainCaller].book_id)
    /\ (/\ Done(MainCaller, "return_book")
        /\ MatchOpen(pre[MainCaller].Borrow, call[MainCaller].borrow_id) # {})
          => /\ ret[MainCaller] = RetTrue
             /\ MatchOpen(Borrow, call[MainCaller].borrow_id) = {}
             /\ \A x \in MatchOpen(pre[MainCaller].Borrow, call[MainCaller].borrow_id) :
                    Available(Books, x.book_id)

\* the second borrow of a copy, by another member, after the first was returned
C7_Witness ==
    /\ Done(MainCaller, "borrow_book")
    /\ ret[MainCaller].kind = "id"
    /\ Available(pre[MainCaller].Books, call[MainCaller].book_id)
    /\ Unavailable(Books, call[MainCaller].book_id)
    /\ \E x \in ClosedBorrows(pre[MainCaller].Borrow) :
          /\ x.book_id = call[MainCaller].book_id
          /\ x.user_id # call[MainCaller].user_id
          /\ x.borrow_id # ret[MainCaller].val

\* what one step may do to the Borrow rows
RecordLifecycleStep ==
    /\ \A x \in ClosedBorrows(Borrow) : x \in Borrow'
    /\ \A x \in Borrow : x.borrow_id \in BorrowIdsOf(Borrow')
    /\ \A y \in Borrow' : y.borrow_id \notin BorrowIdsOf(Borrow) => y.return_date = NULL
    /\ \A x \in Borrow, y \in Borrow' :
          (x.borrow_id = y.borrow_id /\ x.return_date = NULL /\ y.return_date # NULL) =>
              \E c \in Callers :
                  /\ pc[c] = "return_flip"
                  /\ call[c].op = "return_book"
                  /\ call[c].borrow_id = x.borrow_id
                  /\ y.return_date = call[c].return_date
                  /\ pc'[c] = "idle"
                  /\ ret'[c] = RetTrue

\* C8: a borrow record's lifecycle is (none) -> open -> closed only: a new
\* record is open, no record disappears, a closed record never changes again
\* (its return_date is neither reset to NULL nor replaced), and a record
\* becomes closed only in the committing step of a return_book call on it,
\* which returns True and stores that call's return_date.
C8_RecordLifecycle == [][RecordLifecycleStep]_vars

\* a later return_book with another date was tried on a record closed before
C8_Witness ==
    /\ Done(MainCaller, "return_book")
    /\ \E x \in ClosedBorrows(pre[MainCaller].Borrow) :
          /\ x.borrow_id = call[MainCaller].borrow_id
          /\ x.return_date # call[MainCaller].return_date
          /\ x \in Borrow

\* C9: delete_book(b) returns False and leaves the copy in place whenever a
\* borrow record, open or closed, references b; it returns True and removes
\* the copy whenever b exists and no borrow record references it.
C9_DeleteBookPolicy ==
    Done(MainCaller, "delete_book") =>
        LET b == call[MainCaller].book_id IN
        /\ BookReferenced(pre[MainCaller].Borrow, b) =>
              /\ ret[MainCaller] = RetFalse
              /\ b \in DOMAIN Books
              /\ TablesUnchanged(MainCaller)
        /\ (b \in DOMAIN pre[MainCaller].Books /\ ~BookReferenced(pre[MainCaller].Borrow, b)) =>
              /\ ret[MainCaller] = RetTrue
              /\ b \notin DOMAIN Books

\* the copy's whole borrow history is returned, and the delete is still refused
C9_Witness ==
    /\ Done(MainCaller, "delete_book")
    /\ ret[MainCaller] = RetFalse
    /\ call[MainCaller].book_id \in DOMAIN Books
    /\ BookReferenced(Borrow, call[MainCaller].book_id)
    /\ OpenBorrows(Borrow, call[MainCaller].book_id) = {}

\* C10: delete_user(u) returns False and leaves the member in place whenever
\* an open borrow record references u; it returns True and removes the member
\* whenever u exists and has no open borrow record, closed records or not.
C10_DeleteUserPolicy ==
    Done(MainCaller, "delete_user") =>
        LET u == call[MainCaller].user_id IN
        /\ CountActiveBorrows(pre[MainCaller].Borrow, u) > 0 =>
              /\ ret[MainCaller] = RetFalse
              /\ u \in Users
        /\ (u \in pre[MainCaller].Users /\ CountActiveBorrows(pre[MainCaller].Borrow, u) = 0) =>
              /\ ret[MainCaller] = RetTrue
              /\ u \notin Users

\* a step that changes the committed Books or Borrow table is the commit of a
\* call that succeeds, and it carries both writes of that call
CommitsAreWholeCalls ==
    (Books' # Books \/ Borrow' # Borrow) =>
        \E c \in Callers :
            /\ pc'[c] = "idle"
            /\ \/ /\ pc[c] = "borrow_insert"
                  /\ ret'[c].kind = "id"
                  /\ Unavailable(Books', call[c].book_id)
                  /\ Borrow' \ Borrow =
                        {BorrowRow(ret'[c].val, call[c].book_id, call[c].user_id,
                                   call[c].borrow_date, NULL)}
               \/ /\ pc[c] = "return_flip"
                  /\ ret'[c] = RetTrue
                  /\ Available(Books', call[c].book_id)
                  /\ MatchOpen(Borrow, call[c].borrow_id) # {}
                  /\ Borrow' = CloseBorrow(Borrow, call[c].borrow_id, call[c].return_date)

\* no committed state has a flip without its record or a closed record
\* without its flag restored
NoHalfAppliedCall ==
    \A b \in DOMAIN Books : (Books[b] = 0) <=> (OpenBorrows(Borrow, b) # {})

\* caller c ran alone and its borrow_book or return_book did not succeed
FailedAlone(c) ==
    /\ pc[c] = "idle"
    /\ call[c].op \in {"borrow_book", "return_book"}
    /\ ret[c].kind \notin {"id", "True"}
    /\ \A c2 \in Callers \ {c} : call[c2] = NoCall

\* C11: borrow_book and return_book are all-or-nothing, a storage failure at
\* any statement included: a call that does not succeed (None, False or an
\* exception) leaves the committed tables as they were before the call; the
\* committed tables change only in the commit of a successful call, which
\* carries both of its writes; and no committed state shows a flip without
\* its record or a closed record without its flag restored.
C11_AllOrNothing ==
    /\ [](NoHalfAppliedCall /\ \A c \in Callers : FailedAlone(c) => TablesUnchanged(c))
    /\ [][CommitsAreWholeCalls]_vars

\* the INSERT (or the commit) of a borrow_book failed after the flip, and the
\* other caller then borrowed the same copy
C11_Witness ==
    \E c \in Callers :
        /\ Done(c, "borrow_book")
        /\ ret[c] = RaisedAt("OperationalError", 3)
        /\ Available(pre[c].Books, call[c].book_id)
        /\ \E c2 \in Callers \ {c} :
              /\ Done(c2, "borrow_book")
              /\ call[c2].book_id = call[c].book_id
              /\ ret[c2].kind = "id"
              /\ Borrow \ pre[c].Borrow =
                    {BorrowRow(ret[c2].val, call[c2].book_id, call[c2].user_id,
                               call[c2].borrow_date, NULL)}

\* the step in which caller c's return_book returns True
ReturnsTrue(c) ==
    /\ pc[c] # "idle"
    /\ pc'[c] = "idle"
    /\ call[c].op = "return_book"
    /\ ret'[c] = RetTrue

\* C12: whenever return_book(r, d) returns True, in the resulting state
\* record r is closed with return_date d and the copy it references exists
\* with available = 1 (so a call whose availability write affects no row
\* does not return True).
C12_ReturnTrueMeansClosedAndAvailable ==
    [][\A c \in Callers :
          ReturnsTrue(c) =>
              \E x \in Borrow' :
                  /\ x.borrow_id = call[c].borrow_id
                  /\ x.return_date = call[c].return_date
                  /\ x.return_date # NULL
                  /\ Available(Books', x.book_id)]_vars

\* a return_book returned True after a delete_book of its copy, begun before
\* the copy was borrowed, had run to its end
C12_Witness ==
    \E c, c2, c3 \in Callers :
        /\ Done(c, "return_book")
        /\ ret[c] = RetTrue
        /\ Done(c2, "delete_book")
        /\ call[c2].book_id = call[c].book_id
        /\ ~BookReferenced(pre[c2].Borrow, call[c2].book_id)
        /\ Done(c3, "borrow_book")
        /\ ret[c3] = RetId(call[c].borrow_id)
        /\ Available(Books, call[c].book_id)

\* the step in which a call of op by caller c ends
Ends(c, op) ==
    /\ pc'[c] = "idle"
    /\ call'[c].op = op
    /\ pc[c] # "idle" \/ call[c] = NoCall

\* C13: in every interleaving with delete_user and delete_book calls, a
\* borrow_book call that ends while its member is absent, its book is absent
\* or its book is unavailable ends by returning None, never by raising.
C13_BorrowRejectsWithoutRaising ==
    [][\A c \in Callers :
          (/\ Ends(c, "borrow_book")
           /\ \/ call'[c].user_id \notin Users
              \/ ~Available(Books, call'[c].book_id))
              => ret'[c] = RetNone]_vars

\* C14: in every reachable committed state, whatever the sequence and
\* interleaving of borrow_book, return_book, delete_book and delete_user
\* calls, every borrow record, open or closed, references a book copy that
\* exists in Books and a member that exists in Users.
C14_BorrowReferencesResolve ==
    \A x \in Borrow : x.book_id \in DOMAIN Books /\ x.user_id \in Users

\* the storage layer refused both a delete of a member whose records are all
\* closed and an insert for a member deleted meanwhile
C14_Witness ==
    \E c, c2 \in Callers :
        /\ Done(c, "delete_user")
        /\ ret[c] = Raised("IntegrityError")
        /\ CountActiveBorrows(Borrow, call[c].user_id) = 0
        /\ UserReferenced(Borrow, call[c].user_id)
        /\ Done(c2, "borrow_book")
        /\ ret[c2] = Raised("IntegrityError")
        /\ call[c2].user_id \notin Users

\* C15: the reference-count guard and the DELETE of delete_book and of
\* delete_user are one atomic unit: no borrow_book commits a borrow record
\* for that book or member between the guard's count and the DELETE.
C15_GuardAndDeleteAtomic ==
    [][\A c \in Callers, x \in Borrow' \ Borrow :
          /\ pc[c] = "delete_book_delete" => x.book_id # call[c].book_id
          /\ pc[c] = "delete_user_delete" => x.user_id # call[c].user_id]_vars

\* a call executes its statements in order, each at most once: no step takes
\* a caller back to a statement, and the step that finds its conditional
\* UPDATE matching no row ends the call with None (borrow_book) or False
\* (return_book)
NoRetryStep ==
    \A c \in Callers :
        /\ pc[c] = "borrow_update" =>
              /\ pc'[c] \in {"borrow_update", "borrow_insert", "idle"}
              /\ (pc'[c] # pc[c] /\ MatchAvailable(Books, call[c].book_id) = {})
                    => (pc'[c] = "idle" /\ ret'[c] = RetNone)
        /\ pc[c] = "borrow_insert" => pc'[c] \in {"borrow_insert", "idle"}
        /\ pc[c] = "return_close" =>
              /\ pc'[c] \in {"return_close", "return_flip", "idle"}
              /\ (pc'[c] # pc[c] /\ MatchOpen(Borrow, call[c].borrow_id) = {})
                    => (pc'[c] = "idle" /\ ret'[c] = RetFalse)
        /\ pc[c] = "return_flip" => pc'[c] \in {"return_flip", "idle"}

\* while a call is in progress some caller can take a step
NoDeadlock == (\E c \in Callers : pc[c] # "idle") => ENABLED <<RaceNext>>_vars

\* C16: under fair scheduling of the callers every started borrow_book or
\* return_book call eventually completes, however many callers contend for
\* the same copy or record; a caller whose conditional UPDATE matches no row
\* is rejected in that step and never retried; and no set of callers
\* deadlocks.
C16_CallsComplete ==
    /\ \A c \in Callers : (pc[c] # "idle") ~> (pc[c] = "idle")
    /\ [][NoRetryStep]_vars
    /\ []NoDeadlock

\* three callers returned the same open record at once, and all three calls
\* ended: one with True, two with False
C16_Witness ==
    /\ \A c \in Callers :
          /\ Done(c, "return_book")
          /\ call[c].borrow_id = call[MainCaller].borrow_id
          /\ MatchOpen(pre[c].Borrow, call[c].borrow_id) # {}
    /\ Cardinality({c \in Callers : ret[c] = RetTrue}) = 1
    /\ Cardinality({c \in Callers : ret[c] = RetFalse}) = 2

\* the reporting and query operations of reports.py, books.py, users.py and
\* borrow.py
ReadOps ==
    {"list_books", "find_books", "available_books", "books_by_author",
     "books_between_years", "get_user", "find_user_by_phone", "find_user_by_email",
     "list_users", "borrowed_books_of_user", "count_borrowed_books_of_user",
     "list_user_borrows", "list_active_borrows", "list_active_users",
     "list_borrow_history", "list_users_who_borrowed_book", "get_user_id_by_phone",
     "list_borrows_by_phone", "full_books_catalog", "full_users_list",
     "full_borrow_history", "currently_available_books", "currently_borrowed_books",
     "users_with_active_borrows", "borrow_history_of_book", "most_borrowed_books",
     "borrow_history_of_user", "users_by_borrow_count"}

\* C17: every reporting and query operation, run in any state the write
\* operations can leave, leaves the Books, Users and Borrow tables (and
\* their id counters) unchanged.
C17_ReadsChangeNothing ==
    [][\A c \in Callers, op \in ReadOps : Ends(c, op) => UNCHANGED db]_vars

\* the whole history, two records of one copy, was listed
C17_Witness ==
    /\ Done(MainCaller, "list_borrow_history")
    /\ Len(ret[MainCaller].val) = 2
    /\ ret[MainCaller].val[1].book_id = ret[MainCaller].val[2].book_id
    /\ Cardinality(Borrow) = 2
    /\ TablesUnchanged(MainCaller)

\* the borrow records, open or closed, of the copies with title t and author a
BorrowsOfWork(borrow, catalog, t, a) ==
    {x \in borrow : catalog[x.book_id].title = t /\ catalog[x.book_id].author = a}

\* C18: most_borrowed_books returns exactly one entry per distinct (title,
\* author) pair that has at least one borrow record, with borrow_count the
\* number of borrow records, open and closed, over all copies with that title
\* and author; copies with the same title and author are never separate
\* entries.
C18_MostBorrowedGroupsByTitleAuthor ==
    Done(MainCaller, "most_borrowed_books") =>
        LET rows == ret[MainCaller].val
            catalog == pre[MainCaller].Catalog
        IN  /\ \A i, j \in DOMAIN rows :
                  (rows[i].title = rows[j].title /\ rows[i].author = rows[j].author) => i = j
            /\ \A t \in Titles, a \in Authors :
                  LET n == Cardinality(BorrowsOfWork(Borrow, catalog, t, a)) IN
                  /\ n > 0 <=> \E i \in DOMAIN rows : rows[i].title = t /\ rows[i].author = a
                  /\ \A i \in DOMAIN rows :
                        (rows[i].title = t /\ rows[i].author = a) => rows[i].borrow_count = n

\* two copies with the same title and author, one borrow record each (one
\* returned, one open): a single entry with count 2
C18_Witness ==
    /\ Done(MainCaller, "most_borrowed_books")
    /\ Len(ret[MainCaller].val) = 1
    /\ ret[MainCaller].val[1].borrow_count = 2
    /\ \E x, y \in Borrow :
          /\ x.book_id # y.book_id
          /\ x.return_date = NULL
          /\ y.return_date # NULL

\* C19: a borrow_book(u, b, d) call run without concurrent writers returns
\* a borrow_id if and only if member u exists and copy b exists with
\* available = 1, however many open records u already holds; on success the
\* one new record is (b, u, d, return_date NULL), its borrow_id is none of
\* the existing ones, and b's flag is 0.
C19_BorrowSucceedsIffMemberAndAvailable ==
    Done(MainCaller, "borrow_book") =>
        LET u == call[MainCaller].user_id
            b == call[MainCaller].book_id
            before == pre[MainCaller]
        IN  /\ ret[MainCaller].kind = "id" <=> (u \in before.Users /\ Available(before.Books, b))
            /\ ret[MainCaller].kind = "id" =>
                  /\ Borrow = before.Borrow \cup
                        {BorrowRow(ret[MainCaller].val, b, u, call[MainCaller].borrow_date, NULL)}
                  /\ \A x \in before.Borrow : x.borrow_id # ret[MainCaller].val
                  /\ Unavailable(Books, b)

\* a member who holds an open record borrows a second copy
C19_Witness ==
    /\ Done(MainCaller, "borrow_book")
    /\ ret[MainCaller].kind = "id"
    /\ \E x \in pre[MainCaller].Borrow :
          /\ x.user_id = call[MainCaller].user_id
          /\ x.book_id # call[MainCaller].book_id
          /\ x.return_date = NULL
    /\ CountActiveBorrows(Borrow, call[MainCaller].user_id) = 2

\* caller c takes a step of a call of op
StepOf(c, op) ==
    /\ call'[c].op = op
    /\ <<pc[c], call[c], ret[c], pre[c]>> # <<pc'[c], call'[c], ret'[c], pre'[c]>>

\* the copies that exist before and after a step
KeptCopies == DOMAIN Books \cap DOMAIN Books'

\* C20: the availability flag of an existing copy changes only in the commit
\* of a borrow_book on it (1 to 0), in the commit of a return_book of a
\* record of it (to 1) or by update_book_availability on it; no step of
\* add_book, delete_book, create_user, update_user or delete_user changes the
\* flag of an existing copy; and add_book creates the new copy with
\* available = 1.
C20_FlagWriters ==
    [][/\ \A b \in KeptCopies :
             Books'[b] # Books[b] =>
                 \E c \in Callers :
                     \/ /\ StepOf(c, "borrow_book")
                        /\ call[c].book_id = b
                        /\ ret'[c].kind = "id"
                        /\ Books[b] = 1 /\ Books'[b] = 0
                     \/ /\ StepOf(c, "return_book")
                        /\ call[c].book_id = b
                        /\ ret'[c] = RetTrue
                        /\ Books'[b] = 1
                     \/ /\ StepOf(c, "update_book_availability")
                        /\ call'[c].book_id = b
                        /\ Books'[b] = call'[c].available
       /\ \A c \in Callers :
             \A op \in {"add_book", "delete_book", "create_user", "update_user", "delete_user"} :
                 StepOf(c, op) => \A b \in KeptCopies : Books'[b] = Books[b]
       /\ \A c \in Callers :
             StepOf(c, "add_book") =>
                 /\ ret'[c].kind = "id"
                 /\ DOMAIN Books' = DOMAIN Books \cup {ret'[c].val}
                 /\ ret'[c].val \notin DOMAIN Books
                 /\ Books'[ret'[c].val] = 1]_vars

\* a member who holds an open record was renamed after a second copy was
\* added: the copy held is still unavailable, the newer one available
C20_Witness ==
    /\ Done(MainCaller, "update_user")
    /\ ret[MainCaller] = RetTrue
    /\ DOMAIN Books = BookIds
    /\ \E b1, b2 \in BookIds :
          /\ Books[b1] = 0
          /\ Books[b2] = 1
          /\ b1 < b2
          /\ \E x \in OpenBorrows(Borrow, b1) : x.user_id = call[MainCaller].user_id

\* caller c has completed a call whose id did not resolve when the call began
NotFound(c) ==
    /\ pc[c] = "idle"
    /\ \/ /\ call[c].op = "return_book"
          /\ call[c].borrow_id \notin BorrowIdsOf(pre[c].Borrow)
       \/ /\ call[c].op \in {"delete_book", "update_book_availability"}
          /\ call[c].book_id \notin DOMAIN pre[c].Books
       \/ /\ call[c].op = "delete_user"
          /\ call[c].user_id \notin pre[c].Users
       \/ /\ call[c].op = "borrow_book"
          /\ \/ call[c].user_id \notin pre[c].Users
             \/ call[c].book_id \notin DOMAIN pre[c].Books

\* the negative result of the call: None for borrow_book, False for the others
NegativeResult(c) ==
    ret[c] = IF call[c].op = "borrow_book" THEN RetNone ELSE RetFalse

\* C21 (as stated): a call whose id does not resolve ends with a negative
\* result, never an exception, and all tables unchanged: return_book on a
\* non-existent borrow_id, delete_book and update_book_availability on a
\* non-existent book_id and delete_user on a non-existent user_id return
\* False, borrow_book with a non-existent user_id or book_id returns None.
C21_NotFoundIsNegative ==
    NotFound(MainCaller) =>
        /\ NegativeResult(MainCaller)
        /\ TablesUnchanged(MainCaller)

\* C21 (amended): the same, for update_book_availability when the value given
\* is 0 or 1; with any other value the call raises ValueError before it looks
\* for the book, tables unchanged.
C21_NotFoundIsNegativeForValidValue ==
    /\ (NotFound(MainCaller) /\ call[MainCaller].available \in {0, 1}) =>
          /\ NegativeResult(MainCaller)
          /\ TablesUnchanged(MainCaller)
    /\ (NotFound(MainCaller) /\ call[MainCaller].available \notin {0, 1}) =>
          /\ ret[MainCaller] = Raised("ValueError")
          /\ TablesUnchanged(MainCaller)

\* a member who was deleted asks for an existing, available copy
C21_Witness ==
    /\ NotFound(MainCaller)
    /\ call[MainCaller].op = "borrow_book"
    /\ call[MainCaller].user_id \notin Users
    /\ call[MainCaller].user_id <= seqUsers
    /\ Available(Books, call[MainCaller].book_id)
    /\ ret[MainCaller] = RetNone

\* C22: update_book_availability(b, v) raises ValueError and changes nothing
\* when v is not 0 or 1; otherwise it returns True exactly when copy b
\* exists, sets the flag of b and of no other copy to v, and leaves every
\* borrow record (and every member) as it was, whether or not b has an open
\* borrow record.
C22_UpdateAvailabilityEffect ==
    Done(MainCaller, "update_book_availability") =>
        LET b == call[MainCaller].book_id
            v == call[MainCaller].available
            before == pre[MainCaller]
        IN  IF v \notin {0, 1}
            THEN /\ ret[MainCaller] = Raised("ValueError")
                 /\ TablesUnchanged(MainCaller)
            ELSE /\ ret[MainCaller] = IF b \in DOMAIN before.Books THEN RetTrue ELSE RetFalse
                 /\ DOMAIN Books = DOMAIN before.Books
                 /\ \A x \in DOMAIN Books : Books[x] = IF x = b THEN v ELSE before.Books[x]
                 /\ Borrow = before.Borrow
                 /\ Users = before.Users

\* a copy that is out on an open record was set available: True, the record
\* still open, the other copy's flag (0, its record open too) untouched
C22_Witness ==
    /\ Done(MainCaller, "update_book_availability")
    /\ ret[MainCaller] = RetTrue
    /\ call[MainCaller].available = 1
    /\ Unavailable(pre[MainCaller].Books, call[MainCaller].book_id)
    /\ OpenBorrows(Borrow, call[MainCaller].book_id) # {}
    /\ Available(Books, call[MainCaller].book_id)
    /\ \E b \in DOMAIN Books \ {call[MainCaller].book_id} :
          Books[b] = 0 /\ OpenBorrows(Borrow, b) # {}

\* C23: when update_book_availability is never called, in every committed
\* state reached by any interleaving of add_book, borrow_book, return_book,
\* delete_book and the member operations, each copy has available = 0
\* exactly when exactly one open borrow record references it and available
\* = 1 exactly when none does.
C23_FlagMirrorsLedgerWithoutFlagWrites ==
    \A b \in DOMAIN Books :
        LET n == Cardinality(OpenBorrows(Borrow, b)) IN
        /\ Books[b] = 0 <=> n = 1
        /\ Books[b] = 1 <=> n = 0

\* a borrow_book began before its copy existed, add_book then created the
\* copy and the borrow took it; meanwhile the earlier record was returned
C23_Witness ==
    \E c1, c2, c3 \in Callers :
        /\ Done(c1, "add_book")
        /\ Done(c2, "borrow_book")
        /\ call[c2].book_id \notin DOMAIN pre[c2].Books
        /\ call[c2].book_id = ret[c1].val
        /\ ret[c2].kind = "id"
        /\ Unavailable(Books, call[c2].book_id)
        /\ Done(c3, "return_book")
        /\ ret[c3] = RetTrue
        /\ Available(Books, call[c3].book_id)
        /\ OpenBorrows(Borrow, call[c3].book_id) = {}

\* the step in which caller c's borrow_book returns a borrow_id
BorrowSucceeds(c) ==
    /\ pc[c] # "idle"
    /\ pc'[c] = "idle"
    /\ call[c].op = "borrow_book"
    /\ ret'[c].kind = "id"

\* the book rows other than b are the same before and after the step
OtherBooksUnchanged(b) ==
    /\ DOMAIN Books' = DOMAIN Books
    /\ \A x \in DOMAIN Books \ {b} : Books'[x] = Books[x]

\* C24: a successful borrow_book(u, b, d) changes only the flag of copy b and
\* adds exactly one record; a successful return_book(r, d) changes only the
\* return_date of record r and the flag of the copy r references; every
\* other book row, every other borrow record and every Users row is left
\* unchanged.
C24_LedgerCallsFrame ==
    [][\A c \in Callers :
          /\ BorrowSucceeds(c) =>
                /\ OtherBooksUnchanged(call[c].book_id)
                /\ Borrow \subseteq Borrow'
                /\ Cardinality(Borrow' \ Borrow) = 1
                /\ Users' = Users
          /\ ReturnsTrue(c) =>
                /\ \A x \in Borrow : x.borrow_id # call[c].borrow_id => x \in Borrow'
                /\ \A y \in Borrow' \ Borrow :
                      /\ y.borrow_id = call[c].borrow_id
                      /\ \E x \in Borrow : [y EXCEPT !.return_date = x.return_date] = x
                      /\ OtherBooksUnchanged(y.book_id)
                /\ Cardinality(Borrow') = Cardinality(Borrow)
                /\ Cardinality(Borrow' \ Borrow) = 1
                /\ Users' = Users]_vars

\* a return of one copy and a borrow of another ran side by side and both
\* succeeded: the copy returned is available, the copy borrowed is not
C24_Witness ==
    \E c1, c2 \in Callers :
        /\ Done(c1, "return_book")
        /\ ret[c1] = RetTrue
        /\ Done(c2, "borrow_book")
        /\ ret[c2].kind = "id"
        /\ call[c2].book_id # call[c1].book_id
        /\ MatchOpen(pre[c2].Borrow, call[c1].borrow_id) # {}
        /\ ret[c2].val \notin BorrowIdsOf(pre[c1].Borrow)
        /\ Available(Books, call[c1].book_id)
        /\ Unavailable(Books, call[c2].book_id)
        /\ Cardinality(Borrow) = 2

\* every borrow record is still there after the step, with the same
\* borrow_id, book_id, user_id and borrow_date
HistoryKept ==
    \A x \in Borrow :
        \E y \in Borrow' :
            /\ y.borrow_id = x.borrow_id
            /\ y.book_id = x.book_id
            /\ y.user_id = x.user_id
            /\ y.borrow_date = x.borrow_date

\* a record created by the step has a borrow_id above every id issued so far
FreshIds ==
    /\ seqBorrow' >= seqBorrow
    /\ \A y \in Borrow' :
          y.borrow_id \notin BorrowIdsOf(Borrow) =>
              (y.borrow_id > seqBorrow /\ y.borrow_id <= seqBorrow')

\* no two records share a borrow_id, and every id in the table has been issued
IdsIssuedOnce ==
    /\ \A x, y \in Borrow : x.borrow_id = y.borrow_id => x = y
    /\ \A x \in Borrow : x.borrow_id \in 1..seqBorrow

\* C25: the borrow history only grows: no step of any operation deletes a
\* borrow record or changes its borrow_id, book_id, user_id or borrow_date,
\* and a borrow_id once issued is never issued again to a different record.
C25_HistoryOnlyGrows ==
    /\ [][HistoryKept /\ FreshIds]_vars
    /\ []IdsIssuedOnce

\* a delete of a member whose two records are both closed was refused by
\* the storage layer: both records are still in the history
C25_Witness ==
    /\ Done(MainCaller, "delete_user")
    /\ ret[MainCaller] = Raised("IntegrityError")
    /\ BorrowIdsOf(Borrow) = BorrowIds
    /\ \A x \in Borrow :
          /\ x.user_id = call[MainCaller].user_id
          /\ x.return_date # NULL
    /\ Borrow = pre[MainCaller].Borrow

====
